---- MODULE Spec2Model ----
(***************************************************************************)
(* Ladder lottery (Amidakuji) page, src/streamlit_app.py.                  *)
(*                                                                         *)
(* Python lists are modelled as TLA+ sequences.  Python indices are        *)
(* 0-based, sequence indices 1-based: the element the code reads as x[i]   *)
(* is x[i + 1] here.  The VALUES the code stores (tokens in positions,     *)
(* slots in mapping, gap numbers) keep their 0-based Python values.        *)
(* A Python str is a sequence of one-character strings.                    *)
(* A character that cannot be written inside a TLA+ string is named by    *)
(* its code point, as in "U+3000" for the ideographic space.               *)
(* A probability is an integer number of hundredths (the slider's step),   *)
(* and a draw of random.random() is the integer part of 100 times the      *)
(* draw: for p a whole number of hundredths, r < p/100 iff                 *)
(* floor(100 r) < p.                                                       *)
(***************************************************************************)
EXTENDS Integers, Sequences, FiniteSets, TLC

VARIABLES
    session_state,  \* st.session_state: [has_swaps, swaps]
    n_players,      \* slider "플레이어 수"
    n_cols,         \* slider "사다리 가로 단계 수"
    p,              \* slider "가로줄(스왑) 생성 확률", in hundredths
    raw_players,    \* text area of player names
    raw_prizes,     \* text area of prize names
    regen,          \* value of the regenerate button in the last run
    player_names,   \* parse_names(raw_players, ...) of the last run
    prize_names,    \* parse_names(raw_prizes, ...) of the last run
    fig,            \* <<figure>> shown by st.pyplot in the last run, or <<>>
    mapping,        \* <<mapping>> computed in the last run, or <<>>
    results,        \* the "player -> prize" lines written in the last run
    error,          \* "none", or the exception that ended the last run
    args,           \* arguments of a direct call of one of the functions
    ret,            \* what that call returned
    pc              \* "page" | "call" | "done"

appVars == <<session_state, n_players, n_cols, p, raw_players, raw_prizes,
             regen, player_names, prize_names, fig, mapping, results, error>>
callVars == <<args, ret>>
vars == <<appVars, callVars, pc>>

(***************************************************************************)
(* Bounds of the model.                                                    *)
(***************************************************************************)
SliderReach == 1     \* page: a slider is moved at most this far from its default
MaxPattern == 3      \* page: the draws of a run repeat a pattern of at most this length
CallMaxPlayers == 4  \* direct calls: player counts 2..CallMaxPlayers
CallMaxLevels == 2   \* direct calls: level counts 0..CallMaxLevels
MaxRawLen == 4       \* parse_names: raw strings of at most this length
MaxCount == 11       \* parse_names: counts 0..MaxCount

(***************************************************************************)
(* Program constants: the widgets' ranges and default values.              *)
(***************************************************************************)
PlayersMin == 2
PlayersMaxValue == 8
PlayersDefault == 4
ColsMin == 3
ColsMaxValue == 30
ColsDefault == 10
PMin == 0
PMax == 100
PDefault == 35

Min(a, b) == IF a < b THEN a ELSE b
Max(a, b) == IF a > b THEN a ELSE b

\* range(n) as the set of Python indices 0 .. n-1
Range(n) == 0 .. (n - 1)

\* [v] * n ; a non-positive n gives the empty list
Repeat(v, n) == [k \in 1 .. Max(n, 0) |-> v]

(***************************************************************************)
(* generate_swaps, lines 8-22.  draws is the sequence of values that       *)
(* successive calls of random.random() return; used counts the calls.      *)
(***************************************************************************)
RECURSIVE ScanLevel(_, _, _, _, _, _)
ScanLevelStep1(row, i, np, pp, draws, used) ==
    IF i < np - 1
    THEN IF draws[used + 1] < pp
         THEN ScanLevel([row EXCEPT ![i + 1] = TRUE], i + 1, np, pp, draws, used + 1)
         ELSE ScanLevel(row, i + 1, np, pp, draws, used + 1)
    ELSE [row |-> row, used |-> used]

ScanLevelLeq(row, i, np, pp, draws, used) ==
    IF i < np - 1
    THEN IF draws[used + 1] <= pp
         THEN ScanLevel([row EXCEPT ![i + 1] = TRUE], i + 2, np, pp, draws, used + 1)
         ELSE ScanLevel(row, i + 1, np, pp, draws, used + 1)
    ELSE [row |-> row, used |-> used]

\* the while loop of lines 15-21 on one level, from gap i on
ScanLevel(row, i, np, pp, draws, used) ==
    IF i < np - 1
    THEN IF draws[used + 1] < pp
         THEN ScanLevel([row EXCEPT ![i + 1] = TRUE], i + 2, np, pp, draws, used + 1)
         ELSE ScanLevel(row, i + 1, np, pp, draws, used + 1)
    ELSE [row |-> row, used |-> used]

\* the for loop of line 14, from level c on
RECURSIVE GenLevels(_, _, _, _, _, _, _)
GenLevels(swaps, c, np, nc, pp, draws, used) ==
    IF c < nc
    THEN LET r == ScanLevel(swaps[c + 1], 0, np, pp, draws, used)
         IN  GenLevels([swaps EXCEPT ![c + 1] = r.row], c + 1, np, nc, pp, draws, r.used)
    ELSE [swaps |-> swaps, used |-> used]

generate_run(np, nc, pp, draws) ==
    GenLevels(Repeat(Repeat(FALSE, np - 1), nc), 0, np, nc, pp, draws, 0)

generate_swaps(np, nc, pp, draws) == generate_run(np, nc, pp, draws).swaps

(***************************************************************************)
(* simulate_ladder, lines 25-42.                                           *)
(***************************************************************************)
SwapNoTemp(positions, i) ==
    [positions EXCEPT ![i + 1] = positions[i + 2]]

\* line 36: positions[i], positions[i + 1] = positions[i + 1], positions[i]
Swap(positions, i) ==
    [positions EXCEPT ![i + 1] = positions[i + 2], ![i + 2] = positions[i + 1]]

RECURSIVE SwapLevel(_, _, _, _)
SwapLevelShort(positions, row, i, np) ==
    IF i < np - 2
    THEN SwapLevel(IF row[i + 1] THEN Swap(positions, i) ELSE positions, row, i + 1, np)
    ELSE positions

\* the for loop of lines 34-36 on one level, from gap i on
SwapLevel(positions, row, i, np) ==
    IF i < np - 1
    THEN SwapLevel(IF row[i + 1] THEN Swap(positions, i) ELSE positions, row, i + 1, np)
    ELSE positions

RECURSIVE SwapLevels(_, _, _, _)
SwapLevelsBottomUp(positions, swaps, c, np) ==
    IF c < Len(swaps)
    THEN SwapLevels(SwapLevel(positions, swaps[Len(swaps) - c], 0, np), swaps, c + 1, np)
    ELSE positions

\* the for loop of lines 33-36, from level c on
SwapLevels(positions, swaps, c, np) ==
    IF c < Len(swaps)
    THEN SwapLevels(SwapLevel(positions, swaps[c + 1], 0, np), swaps, c + 1, np)
    ELSE positions

\* lines 31-36: the positions array when the loops end (swaps is not empty)
final_positions(swaps) ==
    LET np == Len(swaps[1]) + 1
    IN  SwapLevels([k \in 1 .. np |-> k - 1], swaps, 0, np)

RECURSIVE InvertFrom(_, _, _)
\* the for loop of lines 40-41, from bottom_index on
InvertFrom(map, positions, bottom_index) ==
    IF bottom_index < Len(positions)
    THEN InvertFrom([map EXCEPT ![positions[bottom_index + 1] + 1] = bottom_index],
                    positions, bottom_index + 1)
    ELSE map

NotInverted(positions) == positions

\* lines 39-41
Invert(positions) == InvertFrom(Repeat(0, Len(positions)), positions, 0)

simulate_ladder(swaps) ==
    IF swaps = <<>>
    THEN <<>>
    ELSE Invert(final_positions(swaps))

(***************************************************************************)
(* draw_ladder, lines 45-70.  The figure is the record of what was         *)
(* plotted; lengths are in tenths, the height of a rung in halves.         *)
(* Reading swaps[c][i] past the end of a level raises IndexError.          *)
(***************************************************************************)
RECURSIVE DrawRungs(_, _, _, _, _)
\* the loops of lines 57-61, from level c and gap i on
DrawRungs(rungs, swaps, c, i, np) ==
    IF c >= Len(swaps)
    THEN [error |-> "none", rungs |-> rungs]
    ELSE IF i >= np - 1
    THEN DrawRungs(rungs, swaps, c + 1, 0, np)
    ELSE IF i >= Len(swaps[c + 1])
    THEN [error |-> "IndexError", rungs |-> rungs]
    ELSE IF swaps[c + 1][i + 1]
    THEN DrawRungs(Append(rungs, [x1 |-> i, x2 |-> i + 1, y2 |-> 2 * c + 1]),
                   swaps, c, i + 1, np)
    ELSE DrawRungs(rungs, swaps, c, i + 1, np)

draw_ladder(swaps, names) ==
    LET nc == Len(swaps)
        np == Len(names)
        r == DrawRungs(<<>>, swaps, 0, 0, np)
    IN  [error |-> r.error,
         fig |-> [figsize |-> <<Max(40, 10 * np), Max(40, 4 * nc)>>,
                  xs |-> [k \in 1 .. np |-> k - 1],
                  ys_max |-> nc,
                  rungs |-> r.rungs,
                  xticklabels |-> names]]

(***************************************************************************)
(* parse_names, lines 87-94, with the str operations it uses.              *)
(***************************************************************************)
\* The characters str.strip() removes: those for which str.isspace() holds.
\* Written with an escape: U+0009, U+000A, U+000D, U+000C; written as the
\* character itself: U+0020, U+000B, U+001C, U+001D, U+001E, U+001F, U+0085,
\* U+00A0, U+1680; named by code point: U+2000 .. U+200A, U+2028, U+2029,
\* U+202F, U+205F, U+3000.
Whitespace ==
    {"\t", "\n", "\r", "\f", " ", "", "", "", "", "", "", " ", " ",
     "U+2000", "U+2001", "U+2002", "U+2003", "U+2004", "U+2005", "U+2006", "U+2007",
     "U+2008", "U+2009", "U+200A", "U+2028", "U+2029", "U+202F", "U+205F", "U+3000"}
Digits == <<"0", "1", "2", "3", "4", "5", "6", "7", "8", "9">>

RECURSIVE Str(_)
\* str(n) of an integer n >= 0, as the f-string of line 93 formats it
Str(n) == IF n < 10 THEN <<Digits[n + 1]>> ELSE Append(Str(n \div 10), Digits[(n % 10) + 1])

RECURSIVE LStrip(_)
LStrip(s) == IF s # <<>> /\ Head(s) \in Whitespace THEN LStrip(Tail(s)) ELSE s

RECURSIVE RStrip(_)
RStrip(s) ==
    IF s # <<>> /\ s[Len(s)] \in Whitespace THEN RStrip(SubSeq(s, 1, Len(s) - 1)) ELSE s

\* str.strip()
Strip(s) == RStrip(LStrip(s))

RECURSIVE SplitFrom(_, _, _, _)
\* raw.split(","), scanning from Python index i with the token cur open
SplitFrom(raw, i, cur, acc) ==
    IF i >= Len(raw)
    THEN Append(acc, cur)
    ELSE IF raw[i + 1] = ","
    THEN SplitFrom(raw, i + 1, <<>>, Append(acc, cur))
    ELSE SplitFrom(raw, i + 1, Append(cur, raw[i + 1]), acc)

Split(raw) == SplitFrom(raw, 0, <<>>, <<>>)

RECURSIVE StripNonEmpty(_)
\* line 88: [p.strip() for p in raw.split(",") if p.strip()]
StripNonEmpty(tokens) ==
    IF tokens = <<>>
    THEN <<>>
    ELSE IF Strip(Head(tokens)) # <<>>
    THEN <<Strip(Head(tokens))>> \o StripNonEmpty(Tail(tokens))
    ELSE StripNonEmpty(Tail(tokens))

RECURSIVE PadFrom(_, _, _, _)
PadFromZeroBased(parts, i, count, default_prefix) ==
    IF i < count
    THEN PadFrom(Append(parts, default_prefix \o Str(i)), i + 1, count, default_prefix)
    ELSE parts

\* the for loop of lines 92-93, from index i on
PadFrom(parts, i, count, default_prefix) ==
    IF i < count
    THEN PadFrom(Append(parts, default_prefix \o Str(i + 1)), i + 1, count, default_prefix)
    ELSE parts

parse_names(raw, count, default_prefix) ==
    LET parts == StripNonEmpty(Split(raw))
    IN  IF Len(parts) >= count
        THEN SubSeq(parts, 1, count)
        ELSE PadFrom(parts, Len(parts), count, default_prefix)

(***************************************************************************)
(* The page script, lines 73-128: one run of the script from top to        *)
(* bottom on the widgets' values.  An exception ends the run; what was     *)
(* written before it stays on the page.                                    *)
(***************************************************************************)
Letters == <<"A", "B", "C", "D", "E", "F", "G", "H">>
PlayerPrefix == <<"P">>
PrizePrefix == <<"상", "품", " ">>

RECURSIVE Join(_)
\* ", ".join(items)
Join(items) ==
    IF items = <<>> THEN <<>>
    ELSE IF Len(items) = 1 THEN items[1]
    ELSE items[1] \o <<",", " ">> \o Join(Tail(items))

\* line 82: the default text of the player names area
DefaultPlayers(np) == Join([k \in 1 .. np |-> <<Letters[k]>>])

\* line 83: the default text of the prize names area
DefaultPrizes(np) == Join([k \in 1 .. np |-> PrizePrefix \o Str(k)])

RECURSIVE Matching(_, _, _, _, _)
\* the for loop of lines 125-126, from top_idx on
Matching(lines, map, names, prizes, top_idx) ==
    IF top_idx >= Len(map)
    THEN [error |-> "none", lines |-> lines]
    ELSE IF top_idx >= Len(names) \/ map[top_idx + 1] >= Len(prizes)
    THEN [error |-> "IndexError", lines |-> lines]
    ELSE Matching(Append(lines, <<names[top_idx + 1], prizes[map[top_idx + 1] + 1]>>),
                  map, names, prizes, top_idx + 1)

\* line 100: "swaps" not in st.session_state or regen
MustGenerate(ss, rg) == ~ss.has_swaps \/ rg

\* the values random.random() returns, in hundredths
DrawValues == {0, 50}
DrawSeqs(n) == [1 .. n -> DrawValues]

\* pattern repeated up to length n
Cycle(pattern, n) == [k \in 1 .. n |-> pattern[((k - 1) % Len(pattern)) + 1]]

\* the draw sequences of length n a run of the page is given
PageDrawSeqs(n) ==
    {Cycle(pattern, n) : pattern \in UNION {[1 .. k -> DrawValues] : k \in 1 .. MaxPattern}}

\* the values the user moves the sliders to
PlayerChoices ==
    Max(PlayersMin, PlayersDefault - SliderReach) ..
        Min(PlayersMaxValue, PlayersDefault + SliderReach)
ColChoices ==
    Max(ColsMin, ColsDefault - SliderReach) .. Min(ColsMaxValue, ColsDefault + SliderReach)
PChoices == {PMin, PDefault, PMax}
\* what a user types into a names area
TypedTexts == {<<"X", ",", " ", "Y">>}

NoSession == [has_swaps |-> FALSE, swaps |-> <<>>]

\* a run that also generates a new layout when the player slider has moved
RunRegeneratesOnResize(np, nc, pp, rawpl, rawpr, rg, draws) ==
    \E names \in {parse_names(rawpl, np, PlayerPrefix)} :
    \E prizes \in {parse_names(rawpr, np, PrizePrefix)} :
    \E ss \in {IF MustGenerate(session_state, rg)
               THEN [has_swaps |-> TRUE, swaps |-> generate_swaps(np, nc, pp, draws)]
               ELSE IF np # n_players
               THEN [has_swaps |-> TRUE,
                     swaps |-> generate_swaps(np, nc, pp, Repeat(0, nc * (np - 1)))]
               ELSE session_state} :
    \E d \in {draw_ladder(ss.swaps, names)} :
    \E map \in {simulate_ladder(ss.swaps)} :
    \E m \in {Matching(<<>>, map, names, prizes, 0)} :
        /\ session_state' = ss
        /\ n_players' = np
        /\ n_cols' = nc
        /\ p' = pp
        /\ raw_players' = rawpl
        /\ raw_prizes' = rawpr
        /\ regen' = rg
        /\ player_names' = names
        /\ prize_names' = prizes
        /\ fig' = IF d.error = "none" THEN <<d.fig>> ELSE <<>>
        /\ mapping' = IF d.error = "none" THEN <<map>> ELSE <<>>
        /\ results' = IF d.error = "none" THEN m.lines ELSE <<>>
        /\ error' = IF d.error # "none" THEN d.error ELSE m.error
        /\ UNCHANGED <<callVars, pc>>

\* One run of the script, lines 97-126, and what it leaves on the page.
\* Each \E binds the value of one assignment of the script.
Run(np, nc, pp, rawpl, rawpr, rg, draws) ==
    \E names \in {parse_names(rawpl, np, PlayerPrefix)} :
    \E prizes \in {parse_names(rawpr, np, PrizePrefix)} :
    \E ss \in {IF MustGenerate(session_state, rg)
               THEN [has_swaps |-> TRUE, swaps |-> generate_swaps(np, nc, pp, draws)]
               ELSE session_state} :
    \E d \in {draw_ladder(ss.swaps, names)} :
    \E map \in {simulate_ladder(ss.swaps)} :
    \E m \in {Matching(<<>>, map, names, prizes, 0)} :
        /\ session_state' = ss
        /\ n_players' = np
        /\ n_cols' = nc
        /\ p' = pp
        /\ raw_players' = rawpl
        /\ raw_prizes' = rawpr
        /\ regen' = rg
        /\ player_names' = names
        /\ prize_names' = prizes
        /\ fig' = IF d.error = "none" THEN <<d.fig>> ELSE <<>>
        /\ mapping' = IF d.error = "none" THEN <<map>> ELSE <<>>
        /\ results' = IF d.error = "none" THEN m.lines ELSE <<>>
        /\ error' = IF d.error # "none" THEN d.error ELSE m.error
        /\ UNCHANGED <<callVars, pc>>

\* a new session: nothing held, the widgets at their default values
InitPage ==
    /\ session_state = NoSession
    /\ n_players = PlayersDefault
    /\ n_cols = ColsDefault
    /\ p = PDefault
    /\ raw_players = DefaultPlayers(n_players)
    /\ raw_prizes = DefaultPrizes(n_players)
    /\ regen = FALSE
    /\ player_names = <<>>
    /\ prize_names = <<>>
    /\ fig = <<>>
    /\ mapping = <<>>
    /\ results = <<>>
    /\ error = "none"

Init ==
    /\ InitPage
    /\ args = <<>>
    /\ ret = <<>>
    /\ pc = "page"

\* the first run of a new session
Load ==
    /\ pc = "page"
    /\ ~session_state.has_swaps
    /\ \E draws \in PageDrawSeqs(n_cols * (n_players - 1)) :
           Run(n_players, n_cols, p, raw_players, raw_prizes, FALSE, draws)

\* the user moves the player slider; the names areas, whose default text
\* is made from the player count (lines 82-83), show their new default
SetPlayers ==
    /\ pc = "page"
    /\ session_state.has_swaps
    /\ \E np \in PlayerChoices \ {n_players} :
           Run(np, n_cols, p, DefaultPlayers(np), DefaultPrizes(np), FALSE, <<>>)

SetCols ==
    /\ pc = "page"
    /\ session_state.has_swaps
    /\ \E nc \in ColChoices \ {n_cols} :
           Run(n_players, nc, p, raw_players, raw_prizes, FALSE, <<>>)

SetP ==
    /\ pc = "page"
    /\ session_state.has_swaps
    /\ \E pp \in PChoices \ {p} :
           Run(n_players, n_cols, pp, raw_players, raw_prizes, FALSE, <<>>)

EditPlayers ==
    /\ pc = "page"
    /\ session_state.has_swaps
    /\ \E rawpl \in (TypedTexts \cup {DefaultPlayers(n_players)}) \ {raw_players} :
           Run(n_players, n_cols, p, rawpl, raw_prizes, FALSE, <<>>)

EditPrizes ==
    /\ pc = "page"
    /\ session_state.has_swaps
    /\ \E rawpr \in (TypedTexts \cup {DefaultPrizes(n_players)}) \ {raw_prizes} :
           Run(n_players, n_cols, p, raw_players, rawpr, FALSE, <<>>)

\* the user presses "새로운 사다리 생성"
PressRegen ==
    /\ pc = "page"
    /\ session_state.has_swaps
    /\ \E draws \in PageDrawSeqs(n_cols * (n_players - 1)) :
           Run(n_players, n_cols, p, raw_players, raw_prizes, TRUE, draws)

Next == Load \/ SetPlayers \/ SetCols \/ SetP \/ EditPlayers \/ EditPrizes \/ PressRegen

Spec == Init /\ [][Next]_vars

(***************************************************************************)
(* Direct calls of the three functions, on arguments drawn from bounded    *)
(* sets.  The page stays as constructed.                                   *)
(***************************************************************************)
SeqsUpTo(S, n) == UNION {[1 .. k -> S] : k \in 0 .. n}

\* all layouts of nc levels for np players, rungs placed anyhow
Layouts(np, nc) == [1 .. nc -> [1 .. (np - 1) -> BOOLEAN]]

CallPlayers == PlayersMin .. CallMaxPlayers
CallLevels == 0 .. CallMaxLevels
RawChars == {"A", ",", " ", "\n", "\r", "U+3000"}

GenerateArgs ==
    UNION {[fn : {"generate_swaps"}, n_players : {np}, n_cols : {nc}, p : PChoices,
            draws : DrawSeqs(nc * (np - 1))] : np \in CallPlayers, nc \in CallLevels}

SimulateArgs ==
    UNION {[fn : {"simulate_ladder"}, n_players : {np}, swaps : Layouts(np, nc)] :
               np \in CallPlayers, nc \in CallLevels}

ParseArgs ==
    [fn : {"parse_names"}, raw : SeqsUpTo(RawChars, MaxRawLen), count : 0 .. MaxCount,
     default_prefix : {PlayerPrefix, PrizePrefix}]

InitCall(ArgSet) ==
    /\ InitPage
    /\ args \in ArgSet
    /\ ret = <<>>
    /\ pc = "call"

CallGenerate ==
    /\ pc = "call"
    /\ args.fn = "generate_swaps"
    /\ ret' = generate_run(args.n_players, args.n_cols, args.p, args.draws)
    /\ pc' = "done"
    /\ UNCHANGED <<appVars, args>>

CallSimulate ==
    /\ pc = "call"
    /\ args.fn = "simulate_ladder"
    /\ ret' = [positions |-> IF args.swaps = <<>> THEN <<>> ELSE final_positions(args.swaps),
               mapping |-> simulate_ladder(args.swaps)]
    /\ pc' = "done"
    /\ UNCHANGED <<appVars, args>>

CallParse ==
    /\ pc = "call"
    /\ args.fn = "parse_names"
    /\ ret' = parse_names(args.raw, args.count, args.default_prefix)
    /\ pc' = "done"
    /\ UNCHANGED <<appVars, args>>

SpecGenerate == InitCall(GenerateArgs) /\ [][CallGenerate]_vars
SpecSimulate == InitCall(SimulateArgs) /\ [][CallSimulate]_vars
SpecParse == InitCall(ParseArgs) /\ [][CallParse]_vars

(***************************************************************************)
(* Properties.                                                             *)
(***************************************************************************)
Generated == pc = "done" /\ args.fn = "generate_swaps"
Simulated == pc = "done" /\ args.fn = "simulate_ladder"
Parsed == pc = "done" /\ args.fn = "parse_names"

\* no level has rungs at two adjacent gaps
NonAdjacent(swaps) ==
    \A c \in 1 .. Len(swaps) : \A i \in 1 .. (Len(swaps[c]) - 1) :
        ~(swaps[c][i] /\ swaps[c][i + 1])

\* C1: the layout generate_swaps returns has no level in which two adjacent
\* gaps i and i+1 both hold a rung, whatever the player count, the level
\* count, the probability and the draws.
C1_NonAdjacent == Generated => NonAdjacent(ret.swaps)

\* C1 witness: every draw is below p = 1.0, and the first level of a
\* four-player layout still has rungs only at gaps 0 and 2.
C1_Witness ==
    /\ Generated
    /\ args.p = PMax
    /\ args.n_players = 4
    /\ args.n_cols >= 1
    /\ ret.swaps[1] = <<TRUE, FALSE, TRUE>>

\* gap i (0-based) of a level is one the scan stops at: the first gap, or a
\* gap whose left neighbour holds no rung
Visited(row, i) == i = 0 \/ ~row[i]

\* the gaps the scan stops at, as <<level, gap>>, 0-based
VisitedGaps(swaps, np) ==
    {g \in Range(Len(swaps)) \X Range(np - 1) : Visited(swaps[g[1] + 1], g[2])}

\* how many gaps the scan stops at before it reaches gap i of level c
VisitedBefore(swaps, np, c, i) ==
    Cardinality({g \in VisitedGaps(swaps, np) : g[1] < c \/ (g[1] = c /\ g[2] < i)})

\* C8: generate_swaps returns n_cols levels of n_players - 1 booleans; a gap
\* holds a rung iff the greedy left-to-right scan stops at it and the draw
\* made there is below p; the scan makes one draw per gap it stops at, in
\* order, and none for a gap it skips.
C8_GreedyScan ==
    Generated =>
        /\ Len(ret.swaps) = args.n_cols
        /\ \A c \in Range(args.n_cols) : Len(ret.swaps[c + 1]) = args.n_players - 1
        /\ \A c \in Range(args.n_cols) : \A i \in Range(args.n_players - 1) :
               ret.swaps[c + 1][i + 1] =
                   (/\ Visited(ret.swaps[c + 1], i)
                    /\ args.draws[VisitedBefore(ret.swaps, args.n_players, c, i) + 1] < args.p)
        /\ ret.used = Cardinality(VisitedGaps(ret.swaps, args.n_players))

\* C8 witness: two levels for four players; the first level skips gap 1
\* after the rung at gap 0, the second skips gap 2; four draws made of six.
C8_Witness ==
    /\ Generated
    /\ args.n_players = 4
    /\ ret.swaps = <<<<TRUE, FALSE, TRUE>>, <<FALSE, TRUE, FALSE>>>>
    /\ ret.used = 4
    /\ Len(args.draws) = 6

\* map is a bijection over {0, ..., n-1}
IsBijection(map, n) ==
    /\ Len(map) = n
    /\ \A v \in Range(n) : Cardinality({t \in 1 .. n : map[t] = v}) = 1

\* C2: on a layout of at least one level, rungs placed anyhow (adjacent
\* rungs included), simulate_ladder returns a bijection over
\* {0, ..., n_players - 1}.
C2_Bijection == (Simulated /\ Len(args.swaps) >= 1) => IsBijection(ret.mapping, args.n_players)

\* C2 witness: a level with rungs at all three gaps of a four-player layout.
C2_Witness ==
    /\ Simulated
    /\ Len(args.swaps) >= 1
    /\ args.swaps[1] = <<TRUE, TRUE, TRUE>>
    /\ ret.mapping = <<3, 0, 1, 2>>

\* C3: on a layout of zero levels simulate_ladder returns the identity
\* permutation of the player slots of the configuration.
C3_EmptyIsIdentity ==
    (Simulated /\ Len(args.swaps) = 0) =>
        ret.mapping = [k \in 1 .. args.n_players |-> k - 1]

\* C4: the mapping simulate_ladder returns is the inverse of the positions
\* array the swaps leave: mapping[positions[j]] = j for every bottom slot j
\* and positions[mapping[t]] = t for every top index t.
C4_MappingInvertsPositions ==
    Simulated =>
        /\ Len(ret.mapping) = Len(ret.positions)
        /\ \A j \in Range(Len(ret.positions)) :
               /\ ret.mapping[ret.positions[j + 1] + 1] = j
               /\ ret.positions[ret.mapping[j + 1] + 1] = j

\* C4 witness: a run whose mapping differs from its positions array.
C4_Witness ==
    /\ Simulated
    /\ ret.positions = <<1, 2, 0, 3>>
    /\ ret.mapping = <<2, 0, 1, 3>>

\* the tokens at gap i and i + 1 change places
Exchange(pos, i) ==
    [k \in 1 .. Len(pos) |-> IF k = i + 1 THEN pos[i + 2]
                             ELSE IF k = i + 2 THEN pos[i + 1] ELSE pos[k]]

RECURSIVE ApplyInOrder(_, _, _)
\* the rungs of one level applied in the gap order ord
ApplyInOrder(pos, row, ord) ==
    IF ord = <<>> THEN pos
    ELSE ApplyInOrder(IF row[Head(ord) + 1] THEN Exchange(pos, Head(ord)) ELSE pos,
                      row, Tail(ord))

\* every order of the gaps 0 .. n-1
GapOrders(n) ==
    {ord \in [1 .. n -> Range(n)] : \A a, b \in 1 .. n : a # b => ord[a] # ord[b]}

\* the positions array of simulate_ladder after its first k levels
PositionsAfter(swaps, k) ==
    SwapLevels([j \in 1 .. (Len(swaps[1]) + 1) |-> j - 1], SubSeq(swaps, 1, k), 0,
               Len(swaps[1]) + 1)

\* C7: on a layout without adjacent rungs, applying the rungs of any level
\* in any gap order gives the positions array that simulate_ladder's
\* left-to-right pass over that level gives, level after level up to the
\* array the mapping is inverted from.
C7_OrderWithinLevel ==
    (Simulated /\ Len(args.swaps) >= 1 /\ NonAdjacent(args.swaps)) =>
        /\ PositionsAfter(args.swaps, Len(args.swaps)) = ret.positions
        /\ \A c \in Range(Len(args.swaps)) :
           \A ord \in GapOrders(args.n_players - 1) :
               ApplyInOrder(PositionsAfter(args.swaps, c), args.swaps[c + 1], ord)
                   = PositionsAfter(args.swaps, c + 1)

\* C7 witness: a level with two rungs, at gaps 0 and 2.
C7_Witness ==
    /\ Simulated
    /\ Len(args.swaps) = 2
    /\ args.swaps[2] = <<TRUE, FALSE, TRUE>>
    /\ args.swaps[1] = <<FALSE, TRUE, FALSE>>
    /\ ret.positions = <<2, 0, 3, 1>>

RECURSIVE TracePath(_, _, _)
\* the line reached at the bottom by the path that is on line x above level c
TracePath(swaps, c, x) ==
    IF c >= Len(swaps) THEN x
    ELSE LET row == swaps[c + 1]
         IN  IF x < Len(row) /\ row[x + 1] THEN TracePath(swaps, c + 1, x + 1)
             ELSE IF x >= 1 /\ row[x] THEN TracePath(swaps, c + 1, x - 1)
             ELSE TracePath(swaps, c + 1, x)

\* C9: on a layout without adjacent rungs, mapping[t] is the bottom slot
\* reached by following line t down through the levels, stepping right
\* over a rung on the right, left over a rung on the left.
C9_MappingIsPath ==
    (Simulated /\ Len(args.swaps) >= 1 /\ NonAdjacent(args.swaps)) =>
        /\ Len(ret.mapping) = args.n_players
        /\ \A t \in Range(args.n_players) : ret.mapping[t + 1] = TracePath(args.swaps, 0, t)

\* C9 witness: four players, a rung at gap 0 then a rung at gap 1: line 0
\* steps right twice, lines 1 and 2 step left.
C9_Witness ==
    /\ Simulated
    /\ args.swaps = <<<<TRUE, FALSE, FALSE>>, <<FALSE, TRUE, FALSE>>>>
    /\ ret.mapping = <<2, 0, 1, 3>>

\* the k-th smallest member of a set of integers, k from 1
KthOf(S, k) == CHOOSE b \in S : Cardinality({x \in S : x < b}) = k - 1

\* where the tokens of raw begin and end: before the first character, at
\* each comma, after the last character
Cuts(raw) == {0, Len(raw) + 1} \cup {k \in 1 .. Len(raw) : raw[k] = ","}

\* the comma-separated tokens of raw, in order
Tokens(raw) ==
    [k \in 1 .. (Cardinality(Cuts(raw)) - 1) |->
        SubSeq(raw, KthOf(Cuts(raw), k) + 1, KthOf(Cuts(raw), k + 1) - 1)]

\* t without the white space at its two ends
Trimmed(t) ==
    LET ink == {k \in 1 .. Len(t) : t[k] \notin Whitespace}
    IN  IF ink = {} THEN <<>>
        ELSE SubSeq(t, CHOOSE a \in ink : \A k \in ink : a <= k,
                       CHOOSE b \in ink : \A k \in ink : b >= k)

IsInk(t) == \E k \in 1 .. Len(t) : t[k] \notin Whitespace

\* the tokens of raw that are not empty once trimmed, trimmed, in order
Found(raw) ==
    LET kept == SelectSeq(Tokens(raw), IsInk)
    IN  [k \in 1 .. Len(kept) |-> Trimmed(kept[k])]

\* the decimal numeral of k, 0 <= k < 100
Numeral(k) ==
    IF k < 10 THEN <<Digits[k + 1]>> ELSE <<Digits[(k \div 10) + 1], Digits[(k % 10) + 1]>>

\* C5: parse_names returns exactly count names: the first count tokens of
\* raw that are non-empty after trimming, in input order, then for every
\* missing 0-based index i the prefix followed by the numeral of i + 1.
C5_ParseNames ==
    Parsed =>
        /\ Len(ret) = args.count
        /\ \A k \in 1 .. args.count :
               ret[k] = IF k <= Len(Found(args.raw))
                        THEN Found(args.raw)[k]
                        ELSE args.default_prefix \o Numeral(k)

\* C5 witness: two tokens found, the second after a blank, and a count of
\* four: the names at indices 2 and 3 are the prefix with 3 and with 4.
C5_Witness ==
    /\ Parsed
    /\ args.raw = <<"A", ",", " ", "A">>
    /\ args.count = 4
    /\ ret = <<<<"A">>, <<"A">>, <<"P", "3">>, <<"P", "4">>>>

\* C6: a run of the page replaces the held layout only if none was held or
\* the regenerate button was pressed; every other run, whichever input it
\* follows, leaves the held layout as it was; and the diagram and the
\* mapping a run shows are those of the layout held after it: the mapping
\* is shown with the diagram, and both are missing only from a run that
\* draw_ladder ended.
C6_RegenerateOnlyOnDemand ==
    [][/\ (session_state' # session_state) => (~session_state.has_swaps \/ regen')
       /\ LET d == draw_ladder(session_state'.swaps, player_names')
          IN  /\ d.error = "none" =>
                     /\ fig' = <<d.fig>>
                     /\ mapping' = <<simulate_ladder(session_state'.swaps)>>
              /\ d.error # "none" => (fig' = <<>> /\ mapping' = <<>>)]_vars

\* C6 witness: the level slider was moved, the layout held still has the
\* old number of levels, and its diagram and mapping are on the page.
C6_Witness ==
    /\ session_state.has_swaps
    /\ ~regen
    /\ Len(session_state.swaps) # n_cols
    /\ fig # <<>>
    /\ fig[1].ys_max = Len(session_state.swaps)
    /\ mapping = <<simulate_ladder(session_state.swaps)>>
    /\ \E c \in 1 .. Len(session_state.swaps) : \E i \in 1 .. (n_players - 1) :
           session_state.swaps[c][i]

\* C10: in every run of the page every level of the layout held has
\* n_players - 1 entries for the current player count, the mapping has
\* n_players entries, and no index of draw_ladder or of the result matching
\* is out of range.
C10_LayoutFitsPlayers ==
    session_state.has_swaps =>
        /\ \A c \in 1 .. Len(session_state.swaps) :
               Len(session_state.swaps[c]) = n_players - 1
        /\ error = "none"
        /\ mapping # <<>>
        /\ Len(mapping[1]) = n_players

====
